---- MODULE Spec2Model ----
(***************************************************************************)
(* The colored-regions queens solver of src/main.py as a state machine.    *)
(* One behaviour is: a region grid is chosen, solve_colored_queens is      *)
(* called on it, the recursive backtrack search runs one loop step or one  *)
(* call/return at a time, the call returns, and the same grid is solved a  *)
(* second time.  Cells are <<row, col>> pairs, 0-based as in the source;   *)
(* region_grid is a sequence of rows, so region_grid[r + 1][c + 1] is the  *)
(* source's region_grid[r][c].                                             *)
(***************************************************************************)
EXTENDS Integers, Sequences, FiniteSets, TLC

\* Bounds of the enumerated grids: at most MaxRows rows, at most MaxCells
\* cells in all, region ids in 0..NumIds-1.  Rows may be empty and may differ
\* in length.
MaxRows == 3
MaxCells == 4
NumIds == 2

RegionIds == 0 .. (NumIds - 1)
\* The row lengths of a grid of m rows, and the cells before row r
RECURSIVE CellsBefore(_, _)
CellsBefore(lens, r) == IF r = 1 THEN 0 ELSE CellsBefore(lens, r - 1) + lens[r - 1]
Shapes(m) ==
  { lens \in [1 .. m -> 0 .. MaxCells] : CellsBefore(lens, m + 1) <= MaxCells }
\* The grid of the given row lengths whose cells, in row-major order, are ids
GridOf(lens, ids) ==
  [r \in 1 .. Len(lens) |-> [c \in 1 .. lens[r] |-> ids[CellsBefore(lens, r) + c]]]
IsEnumGrid(g) ==
  \E m \in 0 .. MaxRows : \E lens \in Shapes(m) :
    \E ids \in [1 .. CellsBefore(lens, m + 1) -> RegionIds] : g = GridOf(lens, ids)

\* Larger grids, beyond the enumerated ones.
RowGrid(n) == [r \in 1 .. n |-> [c \in 1 .. n |-> r - 1]]
ColGrid(n) == [r \in 1 .. n |-> [c \in 1 .. n |-> c - 1]]
ExampleGrids ==
  { RowGrid(5), RowGrid(4), RowGrid(3), ColGrid(3), ColGrid(4),
    << <<0, 0, 1, 1>>, <<0, 2, 2, 1>>, <<3, 2, 2, 1>>, <<3, 3, 3, 1>> >>,
    << <<3, 3, 1, 1>>, <<3, 0, 0, 1>>, <<2, 0, 0, 1>>, <<2, 2, 2, 1>> >>,
    << <<0, 0, 0, 0>>, <<1, 1, 2, 2>>, <<1, 3, 3, 2>>, <<3, 3, 3, 3>> >>,
    << <<2, 1, 1>>, <<2, 0, 0>>, <<2, 2, 0>> >>,
    << <<0, 1>>, <<0, 1>>, <<2, 2>> >>,
    << <<0, 1>>, <<2, 1>>, <<2, 0>> >>,
    << <<0, 0, 0, 0>>, <<1, 1, 1, 1>>, <<2, 2, 2, 2>> >>,
    << <<0, 0, 1, 1>>, <<2, 0, 1, 1>>, <<2, 2, 2, 1>> >>,
    << <<0>>, <<1, 1, 1>>, <<2, 2>> >>,
    << <<0>>, <<1, 1>>, <<1, 1>> >>,
    << <<2, 2, 1, 1>>, <<2, 2, 1, 1>>, <<0, 0, 3, 3>>, <<0, 0, 3, 3>> >>,
    << <<0, 0, 0>>, <<1>>, <<2, 2, 2, 2>> >> }

VARIABLES
  region_grid,   \* the argument of solve_colored_queens
  rows, cols,    \* len(region_grid), len(region_grid[0])
  regions,       \* the dict region id -> candidate cells, in insertion order
  region_order,  \* the search order
  used_rows, used_cols, blocked, placement,
  stack,         \* the active backtrack calls, innermost last
  ret,           \* the value a backtrack call has just returned
  pc,            \* "idle": no call running, "run": inside solve_colored_queens
  result,        \* what the latest finished call returned
  previous,      \* what the call before it returned
  calls,         \* how many calls were started: "none", "first", "second"
  board,         \* what format_solution returned for the latest result
  color_grid,    \* extract_board_colors: the averaged colour of every cell
  threshold,     \* its argument color_match_threshold
  palette, numeric_grid, num_row,
  scan,          \* where extract_board_colors is: "off", "rows", "cells", "done"
  extracted      \* what extract_board_colors returned

solver_vars == << region_grid, rows, cols, regions, region_order, used_rows, used_cols,
                  blocked, placement, stack, ret, pc, result, previous, calls, board >>
extract_vars == << color_grid, threshold, palette, numeric_grid, num_row, scan, extracted >>
vars == << solver_vars, extract_vars >>

----------------------------------------------------------------------------
\* Values

EmptyDict == [x \in {} |-> <<0, 0>>]
NoneValue == [kind |-> "None", value |-> EmptyDict]
DictValue(d) == [kind |-> "dict", value |-> d]
Pending == [kind |-> "pending", value |-> EmptyDict]

NoBoard == [kind |-> "none", cells |-> << >>, text |-> << >>]
IndexError == [kind |-> "IndexError", cells |-> << >>, text |-> << >>]
NotExtracted == [kind |-> "none", grid |-> << >>, palette_hex |-> << >>]

Rows(g) == Len(g)
Cols(g) == IF Len(g) > 0 THEN Len(g[1]) ELSE 0

----------------------------------------------------------------------------
\* The region index: regions.setdefault(region_id, []).append((r, c)) over the
\* row-major scan.  The dict is a sequence of entries in insertion order.

HasKey(regs, rid) == \E i \in 1 .. Len(regs) : regs[i].rid = rid
KeyPos(regs, rid) == CHOOSE i \in 1 .. Len(regs) : regs[i].rid = rid
CellsOf(regs, rid) == regs[KeyPos(regs, rid)].cells
Keys(regs) == [i \in 1 .. Len(regs) |-> regs[i].rid]

\* The tuple (r, c) of the scan
CellSwapped(r, c) == <<c, r>>
Cell(r, c) == <<r, c>>

SetDefaultPrepend(regs, rid, cell) ==
  IF HasKey(regs, rid)
  THEN [regs EXCEPT ![KeyPos(regs, rid)].cells = <<cell>> \o @]
  ELSE Append(regs, [rid |-> rid, cells |-> <<cell>>])

SetDefaultAppend(regs, rid, cell) ==
  IF HasKey(regs, rid)
  THEN [regs EXCEPT ![KeyPos(regs, rid)].cells = Append(@, cell)]
  ELSE Append(regs, [rid |-> rid, cells |-> <<cell>>])

RECURSIVE ScanRow(_, _, _, _)
ScanRow(regs, row, r, c) ==
  IF c >= Len(row) THEN regs
  ELSE ScanRow(SetDefaultAppend(regs, row[c + 1], Cell(r, c)), row, r, c + 1)

RECURSIVE ScanGrid(_, _, _)
ScanGrid(regs, g, r) ==
  IF r >= Len(g) THEN regs
  ELSE ScanGrid(ScanRow(regs, g[r + 1], r, 0), g, r + 1)

BuildRegions(g) == ScanGrid(<< >>, g, 0)

\* for region_id, cells in regions.items(): if not cells: return None
Infeasible(regs) == \E i \in 1 .. Len(regs) : Len(regs[i].cells) = 0

----------------------------------------------------------------------------
\* sorted(regions.keys(), key=lambda rid: len(regions[rid])): a stable sort
\* of the keys in insertion order.  Inserting each key behind every key
\* already placed whose count is not larger keeps equal counts in scan order.

SortKey(regs, rid) == Len(CellsOf(regs, rid))

InsertUnstable(s, x, regs) ==
  LET n == Cardinality({i \in 1 .. Len(s) : SortKey(regs, s[i]) < SortKey(regs, x)})
  IN SubSeq(s, 1, n) \o <<x>> \o SubSeq(s, n + 1, Len(s))

InsertTiesById(s, x, regs) ==
  LET n == Cardinality({i \in 1 .. Len(s) :
                          \/ SortKey(regs, s[i]) < SortKey(regs, x)
                          \/ SortKey(regs, s[i]) = SortKey(regs, x) /\ s[i] < x})
  IN SubSeq(s, 1, n) \o <<x>> \o SubSeq(s, n + 1, Len(s))

InsertStable(s, x, regs) ==
  LET n == Cardinality({i \in 1 .. Len(s) : SortKey(regs, s[i]) <= SortKey(regs, x)})
  IN SubSeq(s, 1, n) \o <<x>> \o SubSeq(s, n + 1, Len(s))

RECURSIVE SortFrom(_, _, _, _)
SortFrom(acc, keys, i, regs) ==
  IF i > Len(keys) THEN acc
  ELSE SortFrom(InsertStable(acc, keys[i], regs), keys, i + 1, regs)

SortedByCount(regs) == SortFrom(<< >>, Keys(regs), 1, regs)

----------------------------------------------------------------------------
\* The constraint state

add_blockers(r, c) ==
  { <<r + dr, c + dc>> : dr \in {-1, 0, 1}, dc \in {-1, 0, 1} }
    \cap { <<nr, nc>> : nr \in 0 .. (rows - 1), nc \in 0 .. (cols - 1) }

\* The two skip tests of the candidate loop, negated.
CanPlaceNoAdjacency(cell) ==
  /\ cell[1] \notin used_rows
  /\ cell[2] \notin used_cols

CanPlaceNoRows(cell) ==
  /\ cell[2] \notin used_cols
  /\ cell \notin blocked

CanPlace(cell) ==
  /\ cell[1] \notin used_rows
  /\ cell[2] \notin used_cols
  /\ cell \notin blocked

SetItem(d, k, v) == [x \in DOMAIN d \cup {k} |-> IF x = k THEN v ELSE d[x]]
DelItemForgotten(d, k) == d
DelItem(d, k) == [x \in DOMAIN d \ {k} |-> d[x]]

\* blocked.difference_update(newly_added)
UnblockAll(b, newly, cell) == b \ add_blockers(cell[1], cell[2])
UnblockNothing(b, newly, cell) == b
Unblock(b, newly, cell) == b \ newly

\* return placement if solved else None
ReturnIfNonEmpty(solved, d) == IF d # EmptyDict THEN DictValue(d) ELSE NoneValue
ReturnValue(solved, d) == IF solved THEN DictValue(d) ELSE NoneValue

----------------------------------------------------------------------------
\* format_solution.  The board is a list of rows of "." and "Q"; the text is
\* " ".join of every row, joined by "\n", as a sequence of characters.

RECURSIVE Join(_, _)
Join(seqs, sep) ==
  IF Len(seqs) = 0 THEN << >>
  ELSE IF Len(seqs) = 1 THEN seqs[1]
  ELSE seqs[1] \o <<sep>> \o Join(Tail(seqs), sep)

\* if solution: None and the empty dict are both false
Truthy(solution) == solution.kind = "dict" /\ DOMAIN solution.value # {}

MarkSwapped(cells, q) == [cells EXCEPT ![q[2] + 1][q[1] + 1] = "Q"]
Mark(cells, q) == [cells EXCEPT ![q[1] + 1][q[2] + 1] = "Q"]

RECURSIVE MarkAll(_, _)
MarkAll(cells, qs) ==
  IF qs = {} THEN cells
  ELSE LET q == CHOOSE x \in qs : TRUE IN MarkAll(Mark(cells, q), qs \ {q})

format_solution(g, solution) ==
  LET nrows == Rows(g)
      ncols == Cols(g)
      blank == [r \in 1 .. nrows |-> [c \in 1 .. ncols |-> "."]]
      qs == IF Truthy(solution)
            THEN { solution.value[rid] : rid \in DOMAIN solution.value }
            ELSE {}
  IN IF \E q \in qs : q[1] >= nrows \/ q[2] >= ncols
     THEN IndexError
     ELSE LET cells == MarkAll(blank, qs)
          IN [kind |-> "board", cells |-> cells,
              text |-> Join([r \in 1 .. nrows |-> Join([c \in 1 .. ncols |-> <<cells[r][c]>>], " ")],
                            "\n")]

----------------------------------------------------------------------------
\* The backtrack calls.  A frame is one call backtrack(idx): i is the position
\* (1-based) of the candidate the for loop is at, and while the frame waits
\* for backtrack(idx + 1), cell and newly hold (r, c) and newly_added.  entry
\* records the sets and the dict as the call found them; no step reads it.

State(ur, uc, b, d) == [used_rows |-> ur, used_cols |-> uc, blocked |-> b, placement |-> d]
Frame(idx, entry) ==
  [idx |-> idx, i |-> 1, waiting |-> FALSE, cell |-> <<0, 0>>, newly |-> {},
   entry |-> entry]
Top == stack[Len(stack)]
Pop == SubSeq(stack, 1, Len(stack) - 1)
SetTop(f) == [stack EXCEPT ![Len(stack)] = f]
Rid(f) == region_order[f.idx + 1]
Candidates(f) == CellsOf(regions, Rid(f))
InLoop == pc = "run" /\ stack # << >> /\ ret = "none" /\ ~Top.waiting
         /\ Top.idx < Len(region_order)

Init ==
  /\ \/ IsEnumGrid(region_grid)
     \/ region_grid \in ExampleGrids
  /\ rows = 0 /\ cols = 0
  /\ regions = << >> /\ region_order = << >>
  /\ used_rows = {} /\ used_cols = {} /\ blocked = {}
  /\ placement = EmptyDict
  /\ stack = << >> /\ ret = "none" /\ pc = "idle"
  /\ result = Pending /\ previous = Pending /\ calls = "none"
  /\ board = NoBoard
  /\ color_grid = << >> /\ threshold = 0 /\ palette = << >>
  /\ numeric_grid = << >> /\ num_row = << >> /\ scan = "off"
  /\ extracted = NotExtracted

\* A call that finds the sets and the dict of the call before it.
SolveBeginStale ==
  /\ pc = "idle" /\ calls # "second"
  /\ calls' = IF calls = "none" THEN "first" ELSE "second"
  /\ previous' = result
  /\ rows' = Rows(region_grid) /\ cols' = Cols(region_grid)
  /\ regions' = BuildRegions(region_grid)
  /\ region_order' = SortedByCount(regions')
  /\ pc' = "run" /\ result' = Pending /\ ret' = "none"
  /\ stack' = << Frame(0, State(used_rows, used_cols, blocked, placement)) >>
  /\ board' = NoBoard
  /\ UNCHANGED << region_grid, used_rows, used_cols, blocked, placement >>
  /\ UNCHANGED extract_vars

\* Lines 75-94 and the call backtrack(0) of line 135.
SolveBegin ==
  /\ pc = "idle" /\ calls # "second"
  /\ calls' = IF calls = "none" THEN "first" ELSE "second"
  /\ previous' = result
  /\ rows' = Rows(region_grid) /\ cols' = Cols(region_grid)
  /\ regions' = BuildRegions(region_grid)
  /\ IF Infeasible(regions')
     THEN /\ pc' = "idle" /\ result' = NoneValue
          /\ UNCHANGED << region_order, used_rows, used_cols, blocked, placement,
                          stack, ret >>
     ELSE /\ region_order' = SortedByCount(regions')
          /\ used_rows' = {} /\ used_cols' = {} /\ blocked' = {}
          /\ placement' = EmptyDict
          /\ pc' = "run" /\ result' = Pending /\ ret' = "none"
          /\ stack' = << Frame(0, State({}, {}, {}, EmptyDict)) >>
  /\ board' = NoBoard
  /\ UNCHANGED region_grid
  /\ UNCHANGED extract_vars

\* if idx == len(region_order): return True
BaseCase ==
  /\ pc = "run" /\ stack # << >> /\ ret = "none" /\ ~Top.waiting
  /\ Top.idx = Len(region_order)
  /\ stack' = Pop /\ ret' = "true"
  /\ UNCHANGED << region_grid, rows, cols, regions, region_order, used_rows, used_cols,
                  blocked, placement, pc, result, previous, calls >>
  /\ UNCHANGED << board, extract_vars >>

\* The candidate is in a used row or column, or blocked: continue
Skip ==
  /\ InLoop
  /\ Top.i <= Len(Candidates(Top))
  /\ ~CanPlace(Candidates(Top)[Top.i])
  /\ stack' = SetTop([Top EXCEPT !.i = @ + 1])
  /\ UNCHANGED << region_grid, rows, cols, regions, region_order, used_rows, used_cols,
                  blocked, placement, ret, pc, result, previous, calls >>
  /\ UNCHANGED << board, extract_vars >>

\* Place queen, and call backtrack(idx + 1)
Place ==
  /\ InLoop
  /\ Top.i <= Len(Candidates(Top))
  /\ LET cell == Candidates(Top)[Top.i]
         newly_added == add_blockers(cell[1], cell[2]) \ blocked
     IN /\ CanPlace(cell)
        /\ placement' = SetItem(placement, Rid(Top), cell)
        /\ used_rows' = used_rows \cup {cell[1]}
        /\ used_cols' = used_cols \cup {cell[2]}
        /\ blocked' = blocked \cup newly_added
        /\ stack' = Append(SetTop([Top EXCEPT !.waiting = TRUE, !.cell = cell,
                                              !.newly = newly_added]),
                           Frame(Top.idx + 1,
                                 State(used_rows', used_cols', blocked', placement')))
  /\ UNCHANGED << region_grid, rows, cols, regions, region_order, ret, pc, result,
                  previous, calls >>
  /\ UNCHANGED << board, extract_vars >>

\* if backtrack(idx + 1): return True
PropagateSuccess ==
  /\ pc = "run" /\ stack # << >> /\ ret = "true" /\ Top.waiting
  /\ stack' = Pop
  /\ UNCHANGED << region_grid, rows, cols, regions, region_order, used_rows, used_cols,
                  blocked, placement, ret, pc, result, previous, calls >>
  /\ UNCHANGED << board, extract_vars >>

\* An undo that leaves the row marked as used
UndoKeepsRow ==
  /\ pc = "run" /\ stack # << >> /\ ret = "false" /\ Top.waiting
  /\ blocked' = Unblock(blocked, Top.newly, Top.cell)
  /\ used_rows' = used_rows
  /\ used_cols' = used_cols \ {Top.cell[2]}
  /\ placement' = DelItem(placement, Rid(Top))
  /\ stack' = SetTop([Top EXCEPT !.i = @ + 1, !.waiting = FALSE, !.cell = <<0, 0>>,
                                 !.newly = {}])
  /\ ret' = "none"
  /\ UNCHANGED << region_grid, rows, cols, regions, region_order, pc, result,
                  previous, calls >>
  /\ UNCHANGED << board, extract_vars >>

\* An undo after which the loop starts over
UndoRestartsLoop ==
  /\ pc = "run" /\ stack # << >> /\ ret = "false" /\ Top.waiting
  /\ blocked' = Unblock(blocked, Top.newly, Top.cell)
  /\ used_rows' = used_rows \ {Top.cell[1]}
  /\ used_cols' = used_cols \ {Top.cell[2]}
  /\ placement' = DelItem(placement, Rid(Top))
  /\ stack' = SetTop([Top EXCEPT !.i = 1, !.waiting = FALSE, !.cell = <<0, 0>>,
                                 !.newly = {}])
  /\ ret' = "none"
  /\ UNCHANGED << region_grid, rows, cols, regions, region_order, pc, result,
                  previous, calls >>
  /\ UNCHANGED << board, extract_vars >>

\* Undo, and go on with the next candidate
Undo ==
  /\ pc = "run" /\ stack # << >> /\ ret = "false" /\ Top.waiting
  /\ blocked' = Unblock(blocked, Top.newly, Top.cell)
  /\ used_rows' = used_rows \ {Top.cell[1]}
  /\ used_cols' = used_cols \ {Top.cell[2]}
  /\ placement' = DelItem(placement, Rid(Top))
  /\ stack' = SetTop([Top EXCEPT !.i = @ + 1, !.waiting = FALSE, !.cell = <<0, 0>>,
                                 !.newly = {}])
  /\ ret' = "none"
  /\ UNCHANGED << region_grid, rows, cols, regions, region_order, pc, result,
                  previous, calls >>
  /\ UNCHANGED << board, extract_vars >>

\* The for loop is over: return False
Exhausted ==
  /\ InLoop
  /\ Top.i > Len(Candidates(Top))
  /\ stack' = Pop /\ ret' = "false"
  /\ UNCHANGED << region_grid, rows, cols, regions, region_order, used_rows, used_cols,
                  blocked, placement, pc, result, previous, calls >>
  /\ UNCHANGED << board, extract_vars >>

\* solved = backtrack(0); return placement if solved else None
Return ==
  /\ pc = "run" /\ stack = << >> /\ ret # "none"
  /\ result' = ReturnValue(ret = "true", placement)
  /\ pc' = "idle" /\ ret' = "none"
  /\ UNCHANGED << region_grid, rows, cols, regions, region_order, used_rows, used_cols,
                  blocked, placement, stack, previous, calls >>
  /\ UNCHANGED << board, extract_vars >>

\* format_solution(region_grid, solution), on whatever the call returned
Format ==
  /\ pc = "idle" /\ calls # "none" /\ board = NoBoard
  /\ board' = format_solution(region_grid, result)
  /\ UNCHANGED << region_grid, rows, cols, regions, region_order, used_rows, used_cols,
                  blocked, placement, stack, ret, pc, result, previous, calls >>
  /\ UNCHANGED extract_vars

Next ==
  \/ SolveBegin
  \/ BaseCase
  \/ Skip
  \/ Place
  \/ PropagateSuccess
  \/ Undo
  \/ Exhausted
  \/ Return
  \/ Format

Spec == Init /\ [][Next]_vars

\* A call runs to completion without yielding: the steps inside
\* solve_colored_queens are always taken; the caller's steps need not be.
Search == BaseCase \/ Skip \/ Place \/ PropagateSuccess \/ Undo \/ Exhausted \/ Return
FairSpec == Spec /\ WF_vars(Search)

----------------------------------------------------------------------------
\* extract_board_colors: the palette is built from the averaged cell colours.
\* Reading and sampling the picture (lines 26-46) is input: the colour grid it
\* leaves is drawn in InitPalette.

MaxGridSize == 2
color_match_threshold == 10

\* Three colours with borderline distances: Sand is within 10 of both others
\* and nearer to Rust; Black and Rust are 16 apart in red.
Black == <<0, 0, 0>>
Rust == <<16, 5, 0>>
Sand == <<9, 9, 0>>
Colours == {Black, Rust, Sand}
\* the default, exact matching, and a tolerance no difference can meet
Thresholds == {color_match_threshold, 0, -1}

\* range(grid_size) is empty for a negative grid_size; grid_size = 0 divides
\* by zero at line 29 before any colour is read.
GridSizes == (-1 .. MaxGridSize) \ {0}
SampledGrid(g, grid_size) ==
  LET n == IF grid_size < 0 THEN 0 ELSE grid_size
  IN /\ g \in [1 .. n -> [1 .. n -> Colours]]

abs(x) == IF x < 0 THEN -x ELSE x
max(a, b, c) == IF a >= b /\ a >= c THEN a ELSE IF b >= c THEN b ELSE c

NoIndex == -1    \* None: no index of the palette

\* the palette entry nearest to the colour among those within the threshold
_find_nearest_palette_index(color, pal, th) ==
  LET dist(i) == max(abs(color[1] - pal[i + 1][1]), abs(color[2] - pal[i + 1][2]),
                     abs(color[3] - pal[i + 1][3]))
      close == { i \in 0 .. (Len(pal) - 1) : dist(i) <= th }
  IN IF close = {} THEN NoIndex
     ELSE CHOOSE i \in close :
            \A j \in close : dist(i) < dist(j) \/ (dist(i) = dist(j) /\ i <= j)

\* _find_palette_index: the loop returns at the first idx whose test holds
_find_palette_index(color, pal, th) ==
  LET close == { i \in 0 .. (Len(pal) - 1) :
                   max(abs(color[1] - pal[i + 1][1]), abs(color[2] - pal[i + 1][2]),
                       abs(color[3] - pal[i + 1][3])) <= th }
  IN IF close = {} THEN NoIndex
     ELSE CHOOSE i \in close : \A j \in close : i <= j

HexDigits == << "0", "1", "2", "3", "4", "5", "6", "7",
                "8", "9", "a", "b", "c", "d", "e", "f" >>
\* format spec 02x: at least two lower-case hexadecimal digits
RECURSIVE Hex(_)
Hex(n) == IF n < 16 THEN << HexDigits[n + 1] >>
          ELSE Hex(n \div 16) \o << HexDigits[(n % 16) + 1] >>
Hex02(n) == IF n < 16 THEN << "0" >> \o Hex(n) ELSE Hex(n)
_rgb_to_hex(rgb) == << "#" >> \o Hex02(rgb[1]) \o Hex02(rgb[2]) \o Hex02(rgb[3])

InitPalette ==
  /\ region_grid = << >>
  /\ rows = 0 /\ cols = 0
  /\ regions = << >> /\ region_order = << >>
  /\ used_rows = {} /\ used_cols = {} /\ blocked = {}
  /\ placement = EmptyDict
  /\ stack = << >> /\ ret = "none" /\ pc = "idle"
  /\ result = Pending /\ previous = Pending /\ calls = "none"
  /\ board = NoBoard
  /\ \E grid_size \in GridSizes : SampledGrid(color_grid, grid_size)
  /\ threshold \in Thresholds
  /\ palette = << >> /\ numeric_grid = << >>     \* lines 48-49
  /\ num_row = << >> /\ scan = "rows"
  /\ extracted = NotExtracted

\* for row in color_grid: num_row = []
StartRow ==
  /\ scan = "rows" /\ Len(numeric_grid) < Len(color_grid)
  /\ num_row' = << >>
  /\ scan' = "cells"
  /\ UNCHANGED << color_grid, threshold, palette, numeric_grid, extracted >>
  /\ UNCHANGED solver_vars

\* for color in row: lines 53-57
ScanColor ==
  /\ scan = "cells"
  /\ LET row == color_grid[Len(numeric_grid) + 1]
     IN /\ Len(num_row) < Len(row)
        /\ LET color == row[Len(num_row) + 1]
               found == _find_palette_index(color, palette, threshold)
               idx == IF found = NoIndex THEN Len(palette) ELSE found
           IN /\ palette' = IF found = NoIndex THEN Append(palette, color) ELSE palette
              /\ num_row' = Append(num_row, idx)
  /\ UNCHANGED << color_grid, threshold, numeric_grid, scan, extracted >>
  /\ UNCHANGED solver_vars

\* the row is exhausted: numeric_grid.append(num_row)
EndRow ==
  /\ scan = "cells"
  /\ Len(num_row) = Len(color_grid[Len(numeric_grid) + 1])
  /\ numeric_grid' = Append(numeric_grid, num_row)
  /\ scan' = "rows"
  /\ UNCHANGED << color_grid, threshold, palette, num_row, extracted >>
  /\ UNCHANGED solver_vars

\* lines 60-61
ReturnGrid ==
  /\ scan = "rows" /\ Len(numeric_grid) = Len(color_grid)
  /\ extracted' = [kind |-> "tuple", grid |-> numeric_grid,
                   palette_hex |-> [i \in 1 .. Len(palette) |-> _rgb_to_hex(palette[i])]]
  /\ scan' = "done"
  /\ UNCHANGED << color_grid, threshold, palette, numeric_grid, num_row >>
  /\ UNCHANGED solver_vars

NextPalette ==
  \/ StartRow
  \/ ScanColor
  \/ EndRow
  \/ ReturnGrid

SpecPalette == InitPalette /\ [][NextPalette]_vars

----------------------------------------------------------------------------
\* What the claims speak of, stated from the grid alone.

Finished == pc = "idle" /\ calls # "none"
Rectangular(g) == \A i, j \in 1 .. Len(g) : Len(g[i]) = Len(g[j])
GridCells(g) ==
  UNION { { <<r, c>> : c \in 0 .. (Len(g[r + 1]) - 1) } : r \in 0 .. (Len(g) - 1) }
IdAt(g, cell) == g[cell[1] + 1][cell[2] + 1]
GridIds(g) == { IdAt(g, cell) : cell \in GridCells(g) }
CellsCarrying(g, rid) == { cell \in GridCells(g) : IdAt(g, cell) = rid }
ZeroSized(g) == GridCells(g) = {}

Abs(x) == IF x < 0 THEN -x ELSE x
Max(a, b) == IF a >= b THEN a ELSE b
Chebyshev(p, q) == Max(Abs(p[1] - q[1]), Abs(p[2] - q[2]))
Compatible(p, q) == p[1] # q[1] /\ p[2] # q[2] /\ Chebyshev(p, q) >= 2
PairwiseValid(d) ==
  \A a, b \in DOMAIN d : a # b => Compatible(d[a], d[b])

\* Every assignment of one cell of its own to each region of g that satisfies
\* the row, column and adjacency constraints.
RECURSIVE ValidFrom(_, _, _)
ValidFrom(g, ids, acc) ==
  IF ids = {} THEN acc
  ELSE LET rid == CHOOSE x \in ids : TRUE
       IN ValidFrom(g, ids \ {rid},
                    { e \in { SetItem(d, rid, c) : d \in acc, c \in CellsCarrying(g, rid) } :
                        PairwiseValid(e) })
ValidAssignments(g) == ValidFrom(g, GridIds(g), {EmptyDict})

\* Row-major order of cells
CellBefore(p, q) == p[1] < q[1] \/ (p[1] = q[1] /\ p[2] < q[2])
\* d comes no later than e in depth-first order: at the first region of the
\* search order where they differ, d has the earlier cell.
DepthFirstLeq(d, e) ==
  \/ d = e
  \/ \E k \in 1 .. Len(region_order) :
       /\ CellBefore(d[region_order[k]], e[region_order[k]])
       /\ \A m \in 1 .. (k - 1) : d[region_order[m]] = e[region_order[m]]

Count(g, rid) == Cardinality(CellsCarrying(g, rid))
FirstCell(g, rid) ==
  CHOOSE p \in CellsCarrying(g, rid) :
    \A q \in CellsCarrying(g, rid) : q = p \/ CellBefore(p, q)
Neighbourhood(p) ==
  { q \in (0 .. rows - 1) \X (0 .. cols - 1) : Chebyshev(p, q) <= 1 }
Placed == { placement[rid] : rid \in DOMAIN placement }

----------------------------------------------------------------------------
\* C1: a returned placement has pairwise distinct rows, pairwise distinct
\* columns and Chebyshev distance at least 2 between any two placed cells,
\* for every region grid.
ReturnedPlacementValid ==
  result.kind = "dict" => PairwiseValid(result.value)

\* The same on the grids whose rows have equal lengths.
ReturnedPlacementValidRect ==
  (result.kind = "dict" /\ Rectangular(region_grid)) => PairwiseValid(result.value)

\* C2: the keys of a returned placement are exactly the region ids that occur
\* in the grid, and each region's cell is a cell of the grid carrying its id.
ReturnedPlacementComplete ==
  result.kind = "dict" =>
    /\ DOMAIN result.value = GridIds(region_grid)
    /\ \A rid \in DOMAIN result.value :
         result.value[rid] \in CellsCarrying(region_grid, rid)

ReturnedPlacementCompleteWitness ==
  /\ result.kind = "dict"
  /\ Cardinality(DOMAIN result.value) >= 3
  /\ \E rid \in DOMAIN result.value : result.value[rid][1] # result.value[rid][2]

\* C3: on a rectangular grid None is returned only if no valid assignment of
\* one cell per region exists; the 5x5 grid of full-row regions gets a
\* placement.
NoneIsDefinitive ==
  /\ (result.kind = "None" /\ Rectangular(region_grid))
       => ValidAssignments(region_grid) = {}
  /\ (Finished /\ region_grid = RowGrid(5)) => result.kind = "dict"

NoneIsDefinitiveWitness ==
  /\ result.kind = "None" /\ Rectangular(region_grid)
  /\ Cardinality(GridIds(region_grid)) >= 3

\* C4: in every state of the search blocked is the union of the in-bounds
\* 3x3 neighbourhoods of the cells in the placement.
BlockedIsUnionOfNeighbourhoods ==
  blocked = UNION { Neighbourhood(p) : p \in Placed }

\* A candidate was placed and undone whose neighbourhood shares cells with
\* that of a cell still placed.
BlockedIsUnionWitness ==
  /\ InLoop /\ Top.i > 1
  /\ LET undone == Candidates(Top)[Top.i - 1]
     IN /\ CanPlace(undone)
        /\ Neighbourhood(undone) \cap blocked # {}

\* C5: when a valid complete placement exists, the returned placement is the
\* first of all valid complete placements in depth-first order.
ReturnsFirstValidPlacement ==
  (Finished /\ ValidAssignments(region_grid) # {}) =>
    /\ result.kind = "dict"
    /\ result.value \in ValidAssignments(region_grid)
    /\ \A e \in ValidAssignments(region_grid) : DepthFirstLeq(result.value, e)

\* The same on the grids whose rows have equal lengths.
ReturnsFirstValidPlacementRect ==
  Rectangular(region_grid) => ReturnsFirstValidPlacement

\* C6: two successive calls on the same grid return the same value.
SecondCallSameResult ==
  (Finished /\ calls = "second") => result = previous

SecondCallSameResultWitness ==
  /\ Finished /\ calls = "second"
  /\ result.kind = "dict" /\ Cardinality(DOMAIN result.value) >= 2
  /\ previous = result

\* C7: a grid whose rows have unequal lengths is rejected before the regions
\* are indexed and before any placement: no call on it builds the index,
\* searches, or returns a placement or None.
MalformedGridRejected ==
  ~Rectangular(region_grid) =>
    /\ regions = << >> /\ stack = << >> /\ placement = EmptyDict
    /\ result.kind \notin {"dict", "None"}

\* C8: on a rectangular grid without a valid placement the call returns
\* None, as on [[0,1],[1,0]] and on the 3x3 grid of full-column regions.
UnsolvableReturnsNone ==
  /\ (Finished /\ Rectangular(region_grid) /\ ValidAssignments(region_grid) = {})
       => result = NoneValue
  /\ (Finished /\ region_grid \in { ColGrid(3), << <<0, 1>>, <<1, 0>> >> })
       => result = NoneValue

UnsolvableReturnsNoneWitness ==
  Finished /\ region_grid = ColGrid(3) /\ result = NoneValue

\* C9: the search order lists every region id once, by ascending number of
\* candidate cells, and regions with equal numbers by ascending region id.
OrderTiesByRegionId ==
  calls # "none" =>
    /\ { region_order[i] : i \in 1 .. Len(region_order) } = GridIds(region_grid)
    /\ Len(region_order) = Cardinality(GridIds(region_grid))
    /\ \A i, j \in 1 .. Len(region_order) : i < j =>
         \/ Count(region_grid, region_order[i]) < Count(region_grid, region_order[j])
         \/ /\ Count(region_grid, region_order[i]) = Count(region_grid, region_order[j])
            /\ region_order[i] < region_order[j]

\* C9, amended: the search order lists every region id once, by ascending
\* number of candidate cells, and regions with equal numbers in the order of
\* their first cells in the row-major scan.
OrderTiesByFirstAppearance ==
  calls # "none" =>
    /\ { region_order[i] : i \in 1 .. Len(region_order) } = GridIds(region_grid)
    /\ Len(region_order) = Cardinality(GridIds(region_grid))
    /\ \A i, j \in 1 .. Len(region_order) : i < j =>
         \/ Count(region_grid, region_order[i]) < Count(region_grid, region_order[j])
         \/ /\ Count(region_grid, region_order[i]) = Count(region_grid, region_order[j])
            /\ CellBefore(FirstCell(region_grid, region_order[i]),
                          FirstCell(region_grid, region_order[j]))

\* Two regions with equal counts stand in the order against their ids.
OrderTiesWitness ==
  /\ calls # "none"
  /\ \E i, j \in 1 .. Len(region_order) :
       /\ i < j
       /\ Count(region_grid, region_order[i]) = Count(region_grid, region_order[j])
       /\ region_order[i] > region_order[j]

\* C10: on a zero-sized grid the call returns the empty placement, which is
\* not None, and nothing was placed.
EmptyGridSucceeds ==
  (Finished /\ ZeroSized(region_grid)) =>
    /\ result = DictValue(EmptyDict) /\ result # NoneValue
    /\ placement = EmptyDict /\ used_rows = {} /\ used_cols = {} /\ blocked = {}

EmptyGridSucceedsWitness ==
  /\ Finished /\ ZeroSized(region_grid) /\ Len(region_grid) > 0
  /\ result.kind = "dict"

----------------------------------------------------------------------------
AtLoopHead == pc = "run" /\ stack # << >> /\ ret = "none" /\ ~Top.waiting
NumCols(g) == IF Len(g) = 0 THEN 0
              ELSE CHOOSE n \in { Len(g[r]) : r \in 1 .. Len(g) } :
                     \A r \in 1 .. Len(g) : Len(g[r]) <= n
ResultCells == IF result.kind = "dict"
               THEN { result.value[rid] : rid \in DOMAIN result.value }
               ELSE {}

FailureRestoresState ==
  /\ AtLoopHead => State(used_rows, used_cols, blocked, placement) = Top.entry
  /\ (Finished /\ result = NoneValue) =>
       (used_rows = {} /\ used_cols = {} /\ blocked = {} /\ placement = EmptyDict)

\* A call below the top is about to fail after one of its candidates was
\* placed and undone.
FailureRestoresStateWitness ==
  /\ InLoop /\ Top.idx >= 1 /\ Top.i > Len(Candidates(Top))
  /\ \E k \in 1 .. Len(Candidates(Top)) : CanPlace(Candidates(Top)[k])

\* C13: in every state of the search and for every in-bounds cell c, the
\* candidate test is true exactly if c conflicts with no placed cell, and
\* every partial placement is pairwise valid.
CanPlaceIffNoConflict ==
  pc = "run" =>
    /\ \A c \in (0 .. rows - 1) \X (0 .. cols - 1) :
         CanPlace(c) <=> \A p \in Placed : Compatible(p, c)
    /\ PairwiseValid(placement)

\* The same on the grids whose rows have equal lengths.
CanPlaceIffNoConflictRect ==
  Rectangular(region_grid) => CanPlaceIffNoConflict

\* C14: the search starts at idx = 0 with empty sets and an empty placement,
\* and whenever a call backtrack(idx) is at the head of its loop, idx is
\* between 0 and the number of regions, the keys of the placement are the
\* first idx regions of the search order, used_rows and used_cols are the rows
\* and the columns of the placed cells, and both have idx elements.
StateInLockStep ==
  AtLoopHead =>
    /\ Top.idx = Len(stack) - 1
    /\ 0 <= Top.idx /\ Top.idx <= Len(region_order)
    /\ DOMAIN placement = { region_order[k] : k \in 1 .. Top.idx }
    /\ used_rows = { p[1] : p \in Placed }
    /\ used_cols = { p[2] : p \in Placed }
    /\ Cardinality(used_rows) = Top.idx /\ Cardinality(used_cols) = Top.idx
    /\ Top.idx = 0 => (blocked = {} /\ placement = EmptyDict)

StateInLockStepWitness ==
  AtLoopHead /\ Top.i = 1 /\ Top.idx >= 3 /\ Top.idx < Len(region_order)

\* C15: every call terminates: from its start the search reaches the terminal
\* success state (idx = number of regions) or the terminal failure state (the
\* candidates at idx = 0 exhausted), every running call returns, and the
\* depth idx of no active call exceeds the number of regions.
Started == AtLoopHead /\ Len(stack) = 1 /\ Top.i = 1
TerminalSuccess == AtLoopHead /\ Top.idx = Len(region_order)
TerminalFailure == InLoop /\ Top.idx = 0 /\ Top.i > Len(Candidates(Top))
SearchTerminates ==
  /\ [](\A k \in 1 .. Len(stack) : stack[k].idx <= Len(region_order))
  /\ Started ~> (TerminalSuccess \/ TerminalFailure)
  /\ (pc = "run") ~> (pc = "idle")

SearchTerminatesWitness ==
  TerminalFailure /\ Len(region_order) >= 3 /\ Rectangular(region_grid)

\* C16: on a grid with more regions than rows, or more regions than columns,
\* the call returns None, and every step that ends such a call is the return
\* of a backtrack(0) that came back False, not a check before the search.
TooManyRegions(g) ==
  \/ Cardinality(GridIds(g)) > Len(g)
  \/ Cardinality(GridIds(g)) > NumCols(g)
ExcessRegionsExhaustSearch ==
  [][ ((pc' = "idle" /\ calls' # "none" /\ (pc = "run" \/ calls' # calls))
         /\ TooManyRegions(region_grid))
      => (pc = "run" /\ stack = << >> /\ ret = "false" /\ result' = NoneValue) ]_vars

ExcessRegionsWitness ==
  /\ Finished /\ result = NoneValue /\ TooManyRegions(region_grid)
  /\ Cardinality(GridIds(region_grid)) >= 3

\* C17: the region index a call builds, and keeps until the next call, has one
\* entry for every region id of the grid, whose list holds exactly the cells
\* carrying that id, each once, in row-major order; every grid cell is in
\* exactly one list, no list is empty, the feasibility check finds nothing,
\* and None is returned only by a search over at least one region.
IsRowMajor(cells) ==
  \A i, j \in 1 .. Len(cells) : i < j => CellBefore(cells[i], cells[j])
\* every cell listed by the index, with the list and the place it stands at
Listed(regs) ==
  UNION { { <<i, k, regs[i].cells[k]>> : k \in 1 .. Len(regs[i].cells) } : i \in 1 .. Len(regs) }
\* The index and the order are those of the start of the latest call: a step
\* that changes them, or that starts the first call, ends at the start of a
\* search.
IndexStep ==
  \/ Started'
  \/ /\ UNCHANGED << region_grid, regions, region_order >>
     /\ calls = "none" => calls' = "none"
IndexExact ==
    /\ { regions[i].rid : i \in 1 .. Len(regions) } = GridIds(region_grid)
    /\ Len(regions) = Cardinality(GridIds(region_grid))
    /\ \A i \in 1 .. Len(regions) :
         /\ { regions[i].cells[k] : k \in 1 .. Len(regions[i].cells) }
              = CellsCarrying(region_grid, regions[i].rid)
         /\ IsRowMajor(regions[i].cells)
         /\ Len(regions[i].cells) >= 1
    /\ LET listed == Listed(regions)
       IN \A cell \in GridCells(region_grid) :
            Cardinality({ e \in listed : e[3] = cell }) = 1
    /\ ~Infeasible(regions)
RegionIndexExact ==
  /\ [](Started => IndexExact)
  /\ [][IndexStep]_vars
  /\ []((pc = "idle" /\ result = NoneValue) => region_order # << >>)

RegionIndexWitness ==
  /\ calls # "none" /\ Len(regions) >= 3
  /\ \E i \in 1 .. Len(regions) :
       /\ Len(regions[i].cells) >= 3
       /\ regions[i].cells[1][1] # regions[i].cells[Len(regions[i].cells)][1]
  /\ \E i, j \in 1 .. Len(regions) : i < j /\ regions[i].rid > regions[j].rid

\* C18: two regions with the same number of candidate cells stand in the
\* search order a call computes, and keeps until the next call, as their first
\* cells stand in the row-major scan, whatever their ids.
OrderPos(rid) == CHOOSE k \in 1 .. Len(region_order) : region_order[k] = rid
\* The order is that of the start of the latest call.
OrderStep ==
  \/ Started'
  \/ /\ UNCHANGED << region_grid, region_order >>
     /\ calls = "none" => calls' = "none"
TiesInScanOrder ==
    LET ids == GridIds(region_grid)
        count == [a \in ids |-> Count(region_grid, a)]
        first == [a \in ids |-> FirstCell(region_grid, a)]
        pos == [a \in ids |-> OrderPos(a)]
    IN \A a, b \in ids :
         (count[a] = count[b] /\ CellBefore(first[a], first[b])) => pos[a] < pos[b]
TiesKeepScanOrder ==
  /\ [](Started => TiesInScanOrder)
  /\ [][OrderStep]_vars

TiesKeepScanOrderWitness ==
  /\ calls # "none" /\ Len(region_order) >= 3
  /\ \E a, b \in GridIds(region_grid) :
       /\ a > b
       /\ Count(region_grid, a) = Count(region_grid, b)
       /\ CellBefore(FirstCell(region_grid, a), FirstCell(region_grid, b))
       /\ OrderPos(a) < OrderPos(b)

----------------------------------------------------------------------------
\* Palette building, stated from the colours alone.

Within(p, q, th) == \A k \in 1 .. 3 : Abs(p[k] - q[k]) <= th
Matching(color, pal, th) == { i \in 0 .. (Len(pal) - 1) : Within(color, pal[i + 1], th) }
ColourDist(p, q) == Max(Max(Abs(p[1] - q[1]), Abs(p[2] - q[2])), Abs(p[3] - q[3]))
RECURSIVE Flatten(_)
Flatten(g) == IF g = << >> THEN << >> ELSE Head(g) \o Flatten(Tail(g))
\* the indexes given so far, in the order of the scan
Scanned == Flatten(numeric_grid) \o (IF scan = "cells" THEN num_row ELSE << >>)
ScannedColours == Flatten(color_grid)
FirstPos(seq, x) == CHOOSE i \in 1 .. Len(seq) : seq[i] = x /\ \A j \in 1 .. (i - 1) : seq[j] # x
IdsAscending(seq, k) ==
  /\ { seq[i] : i \in 1 .. Len(seq) } = 0 .. (k - 1)
  /\ \A a, b \in 0 .. (k - 1) : a < b => FirstPos(seq, a) < FirstPos(seq, b)

\* The step that gives the cell under the scan its index
CellStep ==
  /\ scan = "cells" /\ scan' = "cells"
  /\ Len(num_row') = Len(num_row) + 1
CellStepFirstMatch ==
  LET color == color_grid[Len(numeric_grid) + 1][Len(num_row) + 1]
      m == Matching(color, palette, threshold)
      idx == num_row'[Len(num_row')]
  IN IF m = {}
     THEN idx = Len(palette) /\ palette' = Append(palette, color)
     ELSE idx \in m /\ (\A j \in m : idx <= j) /\ palette' = palette

\* C19: every step that gives a cell its index gives it the lowest index of
\* the palette entries whose three components are each within the threshold
\* of the cell's colour, leaving the palette alone, or, when there is no such
\* entry, appends the colour and gives it the next index; at every moment of
\* the scan, and in the grid returned, the ids are exactly 0..k-1 for a
\* palette of k entries and they first appear in ascending order; with a
\* threshold >= 0 each cell's index is the first entry of the final palette
\* within the threshold of its colour.
PaletteFirstMatch ==
  /\ [][CellStep => CellStepFirstMatch]_vars
  /\ [](scan # "off" => IdsAscending(Scanned, Len(palette)))
  /\ [](scan = "done" =>
          /\ extracted.kind = "tuple"
          /\ Len(extracted.grid) = Len(color_grid)
          /\ \A r \in 1 .. Len(color_grid) : Len(extracted.grid[r]) = Len(color_grid[r])
          /\ IdsAscending(Flatten(extracted.grid), Len(extracted.palette_hex))
          /\ threshold >= 0 =>
               \A i \in 1 .. Len(ScannedColours) :
                 LET m == Matching(ScannedColours[i], palette, threshold)
                 IN Flatten(extracted.grid)[i] \in m
                    /\ \A j \in m : Flatten(extracted.grid)[i] <= j)

\* A returned grid where a cell has the first matching entry although a later
\* entry of the palette is nearer to its colour, and where entries were
\* appended.
PaletteFirstMatchWitness ==
  /\ scan = "done" /\ extracted.kind = "tuple"
  /\ Len(extracted.palette_hex) >= 2
  /\ \E i \in 1 .. Len(ScannedColours) :
       LET idx == Flatten(extracted.grid)[i]
       IN \E j \in Matching(ScannedColours[i], palette, threshold) :
            /\ j > idx
            /\ ColourDist(ScannedColours[i], palette[j + 1])
                 < ColourDist(ScannedColours[i], palette[idx + 1])

====
